---- MODULE Spec2Model ----
(***************************************************************************)
(* Model of the two command-line tools of drive-direct-link_m3u:           *)
(*   google_drive_uploader.py   main -> get_service -> list_drive_folders  *)
(*                              or upload_folder (os.walk + create_folder  *)
(*                              + upload_file)                             *)
(*   google_drive_downloader.py main -> download_file_gdown or             *)
(*                              download_file_requests                     *)
(* The remote store, the OAuth flow, gdown and the HTTP server are the     *)
(* environment: each of their answers is a nondeterministic input of the   *)
(* step that asks for it.                                                  *)
(***************************************************************************)
EXTENDS Integers, Sequences, FiniteSets, TLC

\* ------------------------------------------------------------------ bounds
MaxDirs == 4
MaxFiles == 2
MaxLen == 6
MaxIdLen == 1
MaxCookies == 2

\* ------------------------------------------------------------------ values
\* Python's None, and every other falsy id ("if not drive_folder_id").
None == <<>>

\* A remote id is a one-element tuple; <<0>> is a folder id the caller passes
\* with --parent-id, <<k>> (k >= 1) is the k-th id the remote store hands out.
CallerFolder == <<0>>

\* ------------------------------------------------------------------ state
VARIABLES
  tree,               \* the local tree: directories 0..n-1 (0 is local_path),
                      \*   par[d] the containing directory, nfiles[d] its files
  args,               \* uploader: the parsed command line
  pc,                 \* uploader: position in main / upload_folder
  drive_folder_id,    \* upload_folder: id of the top-level remote folder
  current_folder_id,  \* upload_folder: the running reference
  todo,               \* upload_folder: what os.walk has still to yield
  root,               \* upload_folder: the directory os.walk yielded last
  fileidx,            \* upload_folder: next file of root (1-based)
  calls,              \* the create_folder / upload_file calls made, in order
  nextId,             \* the next id the remote store hands out
  ret,                \* upload_folder's return value
  listed,             \* main: outcome of list_drive_folders
  exitCode,           \* main's return value
  fargs,              \* fetcher: the parsed command line
  fpc,                \* fetcher: position in main / download routine
  handed,             \* fetcher: routine main called and the id it passed
  url,                \* the download routine's url
  gets,               \* download_file_requests: URLs requested, in order
  answers,            \* download_file_requests: the answer to each request
  cookies,            \* download_file_requests: cookies of the first response
  response,           \* download_file_requests: which answer "response" is
  output,             \* download_file_requests: the path opened for writing
  written,            \* download_file_requests: the answer whose bytes it got
  fret,               \* the download routine's return value
  fexit               \* fetcher main's return value

uvars == <<tree, args, pc, drive_folder_id, current_folder_id, todo, root,
           fileidx, calls, nextId, ret, listed, exitCode>>
fvars == <<fargs, fpc, handed, url, gets, answers, cookies, response, output,
           written, fret, fexit>>
vars == <<uvars, fvars>>

\* ------------------------------------------------------------ local trees
Dirs(t) == 0 .. (t.n - 1)

RECURSIVE SumTo(_, _)
SumTo(f, k) == IF k < 0 THEN 0 ELSE f[k] + SumTo(f, k - 1)

Trees ==
  UNION { { [n |-> n, par |-> p, nfiles |-> nf] :
              p \in { q \in [0 .. n - 1 -> 0 .. n - 1] :
                        q[0] = 0 /\ \A i \in 1 .. n - 1 : q[i] < i },
              nf \in { g \in [0 .. n - 1 -> 0 .. MaxFiles] :
                        SumTo(g, n - 1) <= MaxFiles } } :
          n \in 1 .. MaxDirs }

RECURSIVE Ascending(_)
Ascending(S) ==
  IF S = {} THEN <<>>
  ELSE LET m == CHOOSE x \in S : \A y \in S : x <= y
       IN <<m>> \o Ascending(S \ {m})

\* the subdirectories of d, in the order scandir lists them
Children(t, d) == Ascending({ i \in Dirs(t) : i # 0 /\ t.par[i] = d })

\* os.walk(top) with topdown=True: yield the directory, then walk into each
\* of its subdirectories in turn.
RECURSIVE walk_stack(_, _)
walk_stack(t, stack) ==
  IF stack = <<>> THEN <<>>
  ELSE <<Head(stack)>> \o walk_stack(t, Children(t, Head(stack)) \o Tail(stack))

RECURSIVE walk_bottomup(_, _)
walk_bottomup(t, stack) ==
  IF stack = <<>> THEN <<>>
  ELSE walk_bottomup(t, Children(t, Head(stack))) \o <<Head(stack)>>
         \o walk_bottomup(t, Tail(stack))

os_walk_bottomup(t) == walk_bottomup(t, <<0>>)

os_walk_toponly(t) == <<0>>

os_walk(t) == walk_stack(t, <<0>>)

\* ------------------------------------------------------- remote collaborator
\* create_folder: the id of the new folder, None when the call raised.
create_folder(ok, fresh) == IF ok THEN <<fresh>> ELSE None

FolderCall(d, parent, id) ==
  [op |-> "create_folder", dir |-> d, file |-> 0, parent |-> parent,
   id |-> id, ok |-> id # None]

FileCall(d, k, parent, ok) ==
  [op |-> "upload_file", dir |-> d, file |-> k, parent |-> parent,
   id |-> None, ok |-> ok]

\* ------------------------------------------------------------ upload_folder
isdir_always(a) == TRUE

\* os.path.isdir(local_path)
isdir(a) == a.folder = "dir"

flat_parent_arg(top, caller_parent) == caller_parent

\* preserve_structure false: current_folder_id = drive_folder_id
flat_folder_id(top, caller_parent) == top

file_parent_top(current, top) == top

\* the parent upload_file is given
file_parent(current, top) == current

\* the parent create_folder is given for a subdirectory
subfolder_parent(current, top) == current

upload_failed_ignored(ok) == FALSE

\* "if not upload_file(...)"
upload_failed(ok) == ~ok

UploaderIdle ==
  /\ tree = [n |-> 1, par |-> [i \in {0} |-> 0], nfiles |-> [i \in {0} |-> 0]]
  /\ args = [list |-> FALSE, folder |-> "absent", no_structure |-> FALSE,
             parent_id |-> None]
  /\ pc = "idle"
  /\ drive_folder_id = None /\ current_folder_id = None
  /\ todo = <<>> /\ root = 0 /\ fileidx = 0
  /\ calls = <<>> /\ nextId = 1
  /\ ret = "none" /\ listed = "none" /\ exitCode = -1

Init ==
  /\ tree \in Trees
  /\ args \in [list : BOOLEAN, folder : {"absent", "notdir", "dir"},
               no_structure : BOOLEAN, parent_id : {None, CallerFolder}]
  /\ pc = "main"
  /\ drive_folder_id = None /\ current_folder_id = None
  /\ todo = <<>> /\ root = 0 /\ fileidx = 0
  /\ calls = <<>> /\ nextId = 1
  /\ ret = "none" /\ listed = "none" /\ exitCode = -1
  /\ fargs = [file_id |-> <<>>, method |-> "gdown", output |-> None]
  /\ fpc = "idle" /\ handed = [routine |-> "none", id |-> <<>>]
  /\ url = <<>> /\ gets = <<>> /\ answers = <<>> /\ cookies = <<>>
  /\ response = 0 /\ output = None /\ written = 0
  /\ fret = "none" /\ fexit = -1

upload_state == <<drive_folder_id, current_folder_id, todo, root, fileidx,
                  calls, nextId, ret>>

\* main, up to the call of upload_folder: get_service fails
MainNoService ==
  /\ pc = "main"
  /\ pc' = "exit" /\ exitCode' = 1
  /\ UNCHANGED <<tree, args, upload_state, listed, fvars>>

\* main with --list: list_drive_folders returns the folders, or [] when the
\* request raised; main prints what it got and returns 0.
MainList ==
  /\ pc = "main" /\ args.list
  /\ \E ok \in BOOLEAN : listed' = IF ok THEN "folders" ELSE "error"
  /\ pc' = "exit" /\ exitCode' = 0
  /\ UNCHANGED <<tree, args, upload_state, fvars>>

\* main without --list and without a folder: print_help, return 1
MainNoFolder ==
  /\ pc = "main" /\ ~args.list /\ args.folder = "absent"
  /\ pc' = "exit" /\ exitCode' = 1
  /\ UNCHANGED <<tree, args, upload_state, listed, fvars>>

\* main calls upload_folder
MainUpload ==
  /\ pc = "main" /\ ~args.list /\ args.folder # "absent"
  /\ pc' = "upload_folder"
  /\ UNCHANGED <<tree, args, upload_state, listed, exitCode, fvars>>

\* upload_folder: local_path is not a directory
UploadNotDir ==
  /\ pc = "upload_folder" /\ ~isdir(args)
  /\ ret' = "False" /\ pc' = "returned"
  /\ UNCHANGED <<tree, args, drive_folder_id, current_folder_id, todo, root,
                 fileidx, calls, nextId, listed, exitCode, fvars>>

\* upload_folder: create the top-level folder, start os.walk
UploadBegin ==
  /\ pc = "upload_folder" /\ isdir(args)
  /\ \E ok \in BOOLEAN :
       LET id == create_folder(ok, nextId) IN
       /\ calls' = Append(calls, FolderCall(0, args.parent_id, id))
       /\ drive_folder_id' = id
       /\ nextId' = IF ok THEN nextId + 1 ELSE nextId
       /\ IF id = None
            THEN ret' = "False" /\ pc' = "returned" /\ todo' = todo
            ELSE ret' = ret /\ pc' = "walk" /\ todo' = os_walk(tree)
  /\ UNCHANGED <<tree, args, current_folder_id, root, fileidx, listed,
                 exitCode, fvars>>

NextPc(t, d) == IF t.nfiles[d] = 0 THEN "walk" ELSE "files"

\* os.walk yields the top directory: current_folder_id = drive_folder_id
WalkTop ==
  /\ pc = "walk" /\ todo # <<>> /\ Head(todo) = 0
  /\ root' = 0 /\ todo' = Tail(todo)
  /\ current_folder_id' = drive_folder_id
  /\ fileidx' = 1 /\ pc' = NextPc(tree, 0)
  /\ UNCHANGED <<tree, args, drive_folder_id, calls, nextId, ret, listed,
                 exitCode, fvars>>

\* os.walk yields a subdirectory, preserve_structure: create its folder
WalkSubfolder ==
  /\ pc = "walk" /\ todo # <<>> /\ Head(todo) # 0 /\ ~args.no_structure
  /\ root' = Head(todo) /\ todo' = Tail(todo)
  /\ \E ok \in BOOLEAN :
       LET id == create_folder(ok, nextId) IN
       /\ calls' = Append(calls,
            FolderCall(Head(todo),
                       subfolder_parent(current_folder_id, drive_folder_id), id))
       /\ current_folder_id' = id
       /\ nextId' = IF ok THEN nextId + 1 ELSE nextId
       /\ IF id = None
            THEN ret' = "False" /\ pc' = "returned" /\ fileidx' = fileidx
            ELSE ret' = ret /\ pc' = NextPc(tree, Head(todo)) /\ fileidx' = 1
  /\ UNCHANGED <<tree, args, drive_folder_id, listed, exitCode, fvars>>

\* os.walk yields a subdirectory, --no-structure
WalkFlat ==
  /\ pc = "walk" /\ todo # <<>> /\ Head(todo) # 0 /\ args.no_structure
  /\ root' = Head(todo) /\ todo' = Tail(todo)
  /\ current_folder_id' = flat_folder_id(drive_folder_id, args.parent_id)
  /\ fileidx' = 1 /\ pc' = NextPc(tree, Head(todo))
  /\ UNCHANGED <<tree, args, drive_folder_id, calls, nextId, ret, listed,
                 exitCode, fvars>>

\* one iteration of "for file_name in files"
UploadFile ==
  /\ pc = "files"
  /\ \E ok \in BOOLEAN :
       /\ calls' = Append(calls,
            FileCall(root, fileidx,
                     file_parent(current_folder_id, drive_folder_id), ok))
       /\ IF upload_failed(ok)
            THEN ret' = "False" /\ pc' = "returned" /\ fileidx' = fileidx
            ELSE /\ ret' = ret
                 /\ fileidx' = fileidx + 1
                 /\ pc' = IF fileidx < tree.nfiles[root] THEN "files" ELSE "walk"
  /\ UNCHANGED <<tree, args, drive_folder_id, current_folder_id, todo, root,
                 nextId, listed, exitCode, fvars>>

\* os.walk is exhausted: return True
UploadDone ==
  /\ pc = "walk" /\ todo = <<>>
  /\ ret' = "True" /\ pc' = "returned"
  /\ UNCHANGED <<tree, args, drive_folder_id, current_folder_id, todo, root,
                 fileidx, calls, nextId, listed, exitCode, fvars>>

\* main: "return 0" if success else "return 1"
MainExit ==
  /\ pc = "returned"
  /\ exitCode' = IF ret = "True" THEN 0 ELSE 1
  /\ pc' = "exit"
  /\ UNCHANGED <<tree, args, upload_state, listed, fvars>>

Next ==
  \/ MainNoService
  \/ MainList
  \/ MainNoFolder
  \/ MainUpload
  \/ UploadNotDir
  \/ UploadBegin
  \/ WalkTop
  \/ WalkSubfolder
  \/ WalkFlat
  \/ UploadFile
  \/ UploadDone
  \/ MainExit

Spec == Init /\ [][Next]_vars

\* ------------------------------------------------------------ uploader claims
CallIdx == 1 .. Len(calls)

IsFolderCall(i, d) == calls[i].op = "create_folder" /\ calls[i].dir = d

IsFileCall(i, d, k) ==
  calls[i].op = "upload_file" /\ calls[i].dir = d /\ calls[i].file = k

\* the ids of the remote folders created for local directory d
FolderIds(d) == { calls[i].id : i \in { j \in CallIdx : IsFolderCall(j, d) /\ calls[j].ok } }

Depth2Dirs == { d \in Dirs(tree) : d # 0 /\ tree.par[d] # 0 }

\* C1: with preserve_structure, the remote folder created for a non-root
\* directory d has as parent the remote folder created for d's immediate
\* parent directory.
C1_SubfolderUnderParent ==
  ~args.no_structure =>
    \A i \in CallIdx :
      (calls[i].op = "create_folder" /\ calls[i].dir # 0 /\ calls[i].ok)
        => calls[i].parent \in FolderIds(tree.par[calls[i].dir])

\* C2: with preserve_structure, every upload_file call is given as parent the
\* id of the one remote folder created for the directory that contains the
\* file.
C2_FileUnderItsFolder ==
  ~args.no_structure =>
    \A i \in CallIdx :
      calls[i].op = "upload_file" => FolderIds(calls[i].dir) = {calls[i].parent}

C2_Witness ==
  /\ ~args.no_structure
  /\ \E i \in CallIdx : \E d \in Dirs(tree) :
       /\ calls[i].op = "upload_file" /\ calls[i].dir = d /\ calls[i].ok
       /\ d # 0 /\ root # d
  /\ \E i \in CallIdx : calls[i].op = "upload_file" /\ calls[i].dir = 0

\* C3: a preserve_structure run in which no remote call fails returns True
\* after exactly one create_folder call per local directory (the top one
\* included) and exactly one upload_file call per local file.
C3_OneNodePerEntry ==
  (/\ ret # "none" /\ args.folder = "dir" /\ ~args.no_structure
   /\ \A i \in CallIdx : calls[i].ok)
  => /\ ret = "True"
     /\ \A d \in Dirs(tree) :
          /\ Cardinality({ i \in CallIdx : IsFolderCall(i, d) }) = 1
          /\ \A k \in 1 .. tree.nfiles[d] :
               Cardinality({ i \in CallIdx : IsFileCall(i, d, k) }) = 1
     /\ Len(calls) = tree.n + SumTo(tree.nfiles, tree.n - 1)

C3_Witness ==
  /\ ret = "True" /\ ~args.no_structure
  /\ tree.n = MaxDirs /\ Depth2Dirs # {}
  /\ \E d \in Dirs(tree) : tree.nfiles[d] = 0
  /\ \E d \in Dirs(tree) : tree.nfiles[d] = MaxFiles

\* an empty directory: one remote folder, no remote file
C3_WitnessEmpty ==
  ret = "True" /\ tree.n = 1 /\ tree.nfiles[0] = 0 /\ Len(calls) = 1

\* C4: with --no-structure every file, at any depth, is uploaded with the id
\* of the single top-level folder as parent.
C4_FlatUnderTop ==
  args.no_structure =>
    /\ Cardinality({ i \in CallIdx : calls[i].op = "create_folder" }) <= 1
    /\ \A i \in CallIdx :
         calls[i].op = "upload_file"
           => calls[i].parent = drive_folder_id /\ FolderIds(0) = {calls[i].parent}

C4_Witness ==
  /\ args.no_structure
  /\ \E i \in CallIdx :
       calls[i].op = "upload_file" /\ calls[i].dir \in Depth2Dirs /\ calls[i].ok

\* C5: a failed create_folder or upload_file call is the last remote call of
\* the run, and the run returns False.
C5_AbortOnFirstFailure ==
  \A i \in CallIdx : ~calls[i].ok => (i = Len(calls) /\ ret = "False")

\* a file upload failed while a file of the same directory and a directory
\* were still to come
C5_Witness ==
  /\ pc = "exit" /\ exitCode = 1 /\ calls # <<>>
  /\ calls[Len(calls)].op = "upload_file" /\ ~calls[Len(calls)].ok
  /\ fileidx < tree.nfiles[root] /\ todo # <<>>

C5_WitnessFolder ==
  /\ pc = "exit" /\ calls # <<>>
  /\ calls[Len(calls)].op = "create_folder" /\ ~calls[Len(calls)].ok
  /\ calls[Len(calls)].dir # 0 /\ todo # <<>>

\* call j creates something that lies directly in local directory d
IsContentOf(j, d) ==
  \/ calls[j].op = "upload_file" /\ calls[j].dir = d
  \/ calls[j].op = "create_folder" /\ calls[j].dir # 0 /\ tree.par[calls[j].dir] = d

\* C6: remote nodes are created in pre-order: the folder of a directory
\* before anything the directory contains, and the directory's own files
\* before the folders of its subdirectories.
C6_PreOrder ==
  /\ \A j \in CallIdx : \A d \in Dirs(tree) :
       IsContentOf(j, d) =>
         /\ \A i \in CallIdx : IsFolderCall(i, d) => i < j
         /\ (~args.no_structure \/ d = 0) => \E i \in CallIdx : IsFolderCall(i, d)
  /\ \A i, j \in CallIdx :
       (/\ calls[i].op = "upload_file"
        /\ calls[j].op = "create_folder" /\ calls[j].dir # 0
        /\ tree.par[calls[j].dir] = calls[i].dir)
       => i < j

\* project/{a.txt, sub/b.txt}: project, a.txt, sub, b.txt
C6_Witness ==
  /\ ret = "True" /\ tree.n = 2 /\ Len(calls) = 4
  /\ IsFolderCall(1, 0) /\ IsFileCall(2, 0, 1)
  /\ IsFolderCall(3, 1) /\ IsFileCall(4, 1, 1)
  /\ calls[3].parent = calls[1].id /\ calls[4].parent = calls[3].id

\* the top-level operation main was asked for succeeded
Succeeded == IF args.list THEN listed = "folders" ELSE ret = "True"

\* C7: main returns 0 exactly when the requested top-level operation (the
\* listing with --list, else the upload) succeeded, and 1 otherwise.
C7_ExitCodeIffSuccess ==
  pc = "exit" => /\ exitCode \in {0, 1}
                 /\ (exitCode = 0 <=> Succeeded)

\* C8: upload_folder on a path that is not a directory returns False and
\* makes no create_folder or upload_file call.
C8_NotDirNoCalls ==
  args.folder = "notdir" =>
    /\ calls = <<>> /\ nextId = 1
    /\ ret \in {"none", "False"}
    /\ pc = "returned" => ret = "False"

C8_Witness == args.folder = "notdir" /\ pc = "returned" /\ tree.n > 1

\* ------------------------------------------------------------------ strings
\* A string is a sequence of tokens: "http" and "drive.google.com" stand for
\* those runs of characters, the others are single characters.
Alphabet == {"http", "drive.google.com", "/", "d", "?"}

Strings(n) == UNION { [1 .. k -> Alphabet] : k \in 0 .. n }

\* str.find, 1-based; 0 when sub does not occur
Find(s, sub) ==
  LET hits == { i \in 1 .. Len(s) - Len(sub) + 1 :
                  SubSeq(s, i, i + Len(sub) - 1) = sub }
  IN IF hits = {} THEN 0 ELSE CHOOSE i \in hits : \A j \in hits : i <= j

\* "sub in s"
Contains(s, sub) == Find(s, sub) # 0

\* s.startswith(prefix)
StartsWith(s, prefix) ==
  Len(s) >= Len(prefix) /\ SubSeq(s, 1, Len(prefix)) = prefix

\* s.split(sep)
RECURSIVE Split(_, _)
Split(s, sep) ==
  LET i == Find(s, sep)
  IN IF i = 0 THEN <<s>>
     ELSE <<SubSeq(s, 1, i - 1)>> \o Split(SubSeq(s, i + Len(sep), Len(s)), sep)

DriveHost == <<"drive.google.com">>
Marker == <<"/", "d", "/">>

\* --------------------------------------------------------- downloader main
\* main, method "requests": file_id.split("/d/")[1].split("/")[0] when the
\* argument contains drive.google.com, IndexError when it has no "/d/".
extract_file_id(s) ==
  IF Contains(s, DriveHost)
    THEN LET parts == Split(s, Marker)
         IN IF Len(parts) < 2
              THEN [ok |-> FALSE, id |-> <<>>]
              ELSE [ok |-> TRUE, id |-> Split(parts[2], <<"/">>)[1]]
    ELSE [ok |-> TRUE, id |-> s]

\* download_file_gdown: the url handed to gdown.download
gdown_url(s) ==
  IF StartsWith(s, <<"http">>) THEN s
  ELSE <<"https://drive.google.com/uc?id=">> \o s

\* download_file_requests: the first url
request_url(id) ==
  <<"https://drive.google.com/uc?id=">> \o id \o <<"&export=download">>

WarningPrefix == <<"download_warning">>

CookieNames ==
  { <<"download_warning">>, <<"download_warning", "_abc">>,
    <<"x_", "download_warning">>, <<"NID">> }

Cookie == [key : CookieNames, value : {"t1", "t2"}]

Jars(n) == UNION { [1 .. k -> Cookie] : k \in 0 .. n }

\* the jars the server of the whole-program specification answers with
FewJars ==
  { <<>>, <<[key |-> <<"download_warning", "_abc">>, value |-> "t1"]>> }

Raised == [raised |-> TRUE, status |-> 0]

Answers == {Raised} \cup [raised : {FALSE}, status : {200, 404}]

RECURSIVE confirm_urls_nobreak(_, _)
confirm_urls_nobreak(u, jar) ==
  IF jar = <<>> THEN <<>>
  ELSE IF StartsWith(Head(jar).key, WarningPrefix)
    THEN LET v == u \o <<"&confirm=", Head(jar).value>>
         IN <<v>> \o confirm_urls_nobreak(v, Tail(jar))
    ELSE confirm_urls_nobreak(u, Tail(jar))

\* the urls the cookie loop requests: one, for the first cookie whose name
\* starts with download_warning ("break")
confirm_urls(u, jar) ==
  LET W == { i \in 1 .. Len(jar) : StartsWith(jar[i].key, WarningPrefix) }
  IN IF W = {} THEN <<>>
     ELSE LET i == CHOOSE x \in W : \A y \in W : x <= y
          IN << u \o <<"&confirm=", jar[i].value>> >>

\* "if response.status_code != 200: return False"
status_ok(a) == a.status = 200

fetch_state == <<url, gets, answers, cookies, response, output, written, fret>>

\* main, method gdown: the argument goes to download_file_gdown as it is
FetchMainGdown ==
  /\ fpc = "main" /\ fargs.method = "gdown"
  /\ handed' = [routine |-> "gdown", id |-> fargs.file_id]
  /\ fpc' = "gdown"
  /\ UNCHANGED <<fargs, fetch_state, fexit, uvars>>

\* main, method requests: the identifier is cut out of a Drive URL
FetchMainRequests ==
  /\ fpc = "main" /\ fargs.method = "requests"
  /\ extract_file_id(fargs.file_id).ok
  /\ handed' = [routine |-> "requests", id |-> extract_file_id(fargs.file_id).id]
  /\ fpc' = "requests"
  /\ UNCHANGED <<fargs, fetch_state, fexit, uvars>>

\* main, method requests: IndexError, "Could not extract file ID", return 1
FetchMainBadUrl ==
  /\ fpc = "main" /\ fargs.method = "requests"
  /\ ~extract_file_id(fargs.file_id).ok
  /\ fexit' = 1 /\ fpc' = "exit"
  /\ UNCHANGED <<fargs, handed, fetch_state, uvars>>

\* download_file_gdown: gdown missing, or gdown.download returns the output
\* path, returns None, or raises
GdownDownload ==
  /\ fpc = "gdown"
  /\ \E outcome \in {"ImportError", "output", "None", "raised"} :
       /\ url' = IF outcome = "ImportError" THEN url ELSE gdown_url(handed.id)
       /\ fret' = IF outcome = "output" THEN "True" ELSE "False"
  /\ fpc' = "returned"
  /\ UNCHANGED <<fargs, handed, gets, answers, cookies, response, output,
                 written, fexit, uvars>>

\* download_file_requests: requests missing
RequestsNoImport ==
  /\ fpc = "requests"
  /\ fret' = "False" /\ fpc' = "returned"
  /\ UNCHANGED <<fargs, handed, url, gets, answers, cookies, response, output,
                 written, fexit, uvars>>

\* download_file_requests: the first session.get
RequestsGet(jars) ==
  /\ fpc = "requests"
  /\ url' = request_url(handed.id)
  /\ gets' = <<request_url(handed.id)>>
  /\ \E a \in Answers : \E jar \in jars :
       /\ answers' = <<a>>
       /\ IF a.raised
            THEN /\ fret' = "False" /\ fpc' = "returned"
                 /\ UNCHANGED <<cookies, response>>
            ELSE /\ cookies' = jar /\ response' = 1
                 /\ fpc' = "cookies" /\ fret' = fret
  /\ UNCHANGED <<fargs, handed, output, written, fexit, uvars>>

FirstRaise(as) ==
  LET R == { i \in 1 .. Len(as) : as[i].raised }
  IN IF R = {} THEN 0 ELSE CHOOSE i \in R : \A j \in R : i <= j

\* download_file_requests: the loop over response.cookies.items()
RequestsCookies ==
  /\ fpc = "cookies"
  /\ LET us == confirm_urls(url, cookies) IN
     \E as \in [1 .. Len(us) -> Answers] :
       LET r == FirstRaise(as)
           sent == IF r = 0 THEN Len(us) ELSE r
       IN /\ gets' = gets \o SubSeq(us, 1, sent)
          /\ answers' = answers \o SubSeq(as, 1, sent)
          /\ url' = IF sent = 0 THEN url ELSE us[sent]
          /\ IF r # 0
               THEN fret' = "False" /\ fpc' = "returned" /\ response' = response
               ELSE fret' = fret /\ fpc' = "status"
                    /\ response' = Len(gets) + sent
  /\ UNCHANGED <<fargs, handed, cookies, output, written, fexit, uvars>>

\* download_file_requests: the status check
RequestsStatus ==
  /\ fpc = "status"
  /\ IF status_ok(answers[response])
       THEN fret' = fret /\ fpc' = "write"
       ELSE fret' = "False" /\ fpc' = "returned"
  /\ UNCHANGED <<fargs, handed, url, gets, answers, cookies, response, output,
                 written, fexit, uvars>>

\* output_path: the caller's, else the content-disposition filename, else
\* the file id
output_path(given, header, id) ==
  IF given # None THEN given
  ELSE IF header.present THEN header.name ELSE id

\* download_file_requests: open the output file and copy the chunks
RequestsWrite ==
  /\ fpc = "write"
  /\ \E header \in { [present |-> FALSE, name |-> <<>>],
                     [present |-> TRUE, name |-> <<"name.bin">>] } :
     \E opened, streamed \in BOOLEAN :
       LET path == output_path(fargs.output, header, handed.id) IN
       IF path = <<>> \/ ~opened
         THEN fret' = "False" /\ UNCHANGED <<output, written>>
         ELSE /\ output' = path /\ written' = response
              /\ fret' = IF streamed THEN "True" ELSE "False"
  /\ fpc' = "returned"
  /\ UNCHANGED <<fargs, handed, url, gets, answers, cookies, response, fexit,
                 uvars>>

\* main: "return 0 if success else 1"
FetchExit ==
  /\ fpc = "returned"
  /\ fexit' = IF fret = "True" THEN 0 ELSE 1
  /\ fpc' = "exit"
  /\ UNCHANGED <<fargs, handed, fetch_state, uvars>>

FetcherStart ==
  /\ handed = [routine |-> "none", id |-> <<>>]
  /\ url = <<>> /\ gets = <<>> /\ answers = <<>> /\ cookies = <<>>
  /\ response = 0 /\ output = None /\ written = 0
  /\ fret = "none" /\ fexit = -1

\* the fetcher from its command line
FetchInit ==
  /\ UploaderIdle
  /\ fargs \in [file_id : Strings(MaxLen), method : {"gdown", "requests"},
                output : {None, <<"out.bin">>}]
  /\ fpc = "main"
  /\ FetcherStart

FetchGet == RequestsGet(FewJars)

FetchNext ==
  \/ FetchMainGdown
  \/ FetchMainRequests
  \/ FetchMainBadUrl
  \/ GdownDownload
  \/ RequestsNoImport
  \/ FetchGet
  \/ RequestsCookies
  \/ RequestsStatus
  \/ RequestsWrite
  \/ FetchExit

FetchSpec == FetchInit /\ [][FetchNext]_vars

\* download_file_requests called with a file id
RequestsInit ==
  /\ UploaderIdle
  /\ fargs \in [file_id : Strings(MaxIdLen), method : {"requests"},
                output : {None, <<"out.bin">>}]
  /\ fpc = "requests"
  /\ handed = [routine |-> "requests", id |-> fargs.file_id]
  /\ url = <<>> /\ gets = <<>> /\ answers = <<>> /\ cookies = <<>>
  /\ response = 0 /\ output = None /\ written = 0
  /\ fret = "none" /\ fexit = -1

AnyGet == RequestsGet(Jars(MaxCookies))

RequestsNext ==
  \/ RequestsNoImport
  \/ AnyGet
  \/ RequestsCookies
  \/ RequestsStatus
  \/ RequestsWrite

RequestsSpec == RequestsInit /\ [][RequestsNext]_vars

\* ------------------------------------------------------------- fetcher claims
\* the characters an identifier is made of
IdChars == Alphabet \ {"/", "?", "drive.google.com"}

\* the path segment after the first "/d/": it ends at the next "/", at the
\* "?" that opens the query, or at the end of the string
IdentifierSegment(s) ==
  LET from == Find(s, Marker) + Len(Marker)
      stops == { j \in from .. Len(s) : s[j] \in {"/", "?"} }
      stop == IF stops = {} THEN Len(s) + 1
              ELSE CHOOSE j \in stops : \A k \in stops : j <= k
  IN SubSeq(s, from, stop - 1)

\* s is a Drive link with an identifier segment
HasIdentifier(s) ==
  /\ Contains(s, Marker)
  /\ Contains(SubSeq(s, 1, Find(s, Marker) - 1), DriveHost)
  /\ IdentifierSegment(s) # <<>>
  /\ \A i \in 1 .. Len(IdentifierSegment(s)) : IdentifierSegment(s)[i] \in IdChars

\* C9: with method requests, main hands download_file_requests the
\* identifier segment of a shareable link, which is what it hands over when
\* given the bare identifier; a Drive URL without the "/d/" marker makes main
\* return 1 and no download routine is called.
C9_LinkGivesSameIdentifier ==
  (fargs.method = "requests" /\ fpc \notin {"idle", "main"}) =>
    /\ HasIdentifier(fargs.file_id) =>
         /\ handed.routine = "requests"
         /\ handed.id = IdentifierSegment(fargs.file_id)
         /\ handed.id = extract_file_id(IdentifierSegment(fargs.file_id)).id
    /\ (Contains(fargs.file_id, DriveHost) /\ ~Contains(fargs.file_id, Marker)) =>
         /\ handed.routine = "none" /\ gets = <<>>
         /\ fpc = "exit" /\ fexit = 1

WarningIdx == { i \in 1 .. Len(cookies) : StartsWith(cookies[i].key, WarningPrefix) }

FirstWarning == cookies[CHOOSE i \in WarningIdx : \A j \in WarningIdx : i <= j]

\* C10: after a first response with a download_warning cookie exactly one
\* more request is sent, to the first url plus "&confirm=" and the value of
\* (the first) such cookie, and the status check and the bytes written are
\* those of the second response; without such a cookie nothing more is
\* requested; a final status other than 200 returns False and no output file
\* is opened.
C10_ConfirmLargeFile ==
  (handed.routine = "requests" /\ Len(answers) >= 1 /\ ~answers[1].raised
   /\ fpc # "cookies") =>
    /\ IF WarningIdx # {}
         THEN /\ Len(gets) = 2
              /\ gets[2] = gets[1] \o <<"&confirm=", FirstWarning.value>>
              /\ ~answers[2].raised => response = 2
         ELSE Len(gets) = 1 /\ response = 1
    /\ written # 0 => written = Len(gets) /\ answers[written].status = 200
    /\ (fpc \in {"returned", "exit"} /\ answers[Len(answers)].status # 200) =>
         fret = "False" /\ output = None /\ written = 0

\* two warning cookies with different values, a first answer that is not 200
C10_Witness ==
  /\ fpc = "returned" /\ fret = "True" /\ written = 2
  /\ Cardinality(WarningIdx) = 2
  /\ cookies[1].value # cookies[2].value
  /\ answers[1].status = 404

C10_WitnessRefused ==
  /\ fpc = "returned" /\ fret = "False" /\ WarningIdx # {}
  /\ Len(answers) = 2 /\ answers[1].status = 200 /\ answers[2].status = 404

====
